---- MODULE Spec2Model ----
(***************************************************************************)
(* The federated-learning coordination server of                           *)
(* python_engine/federated_learning/fl_server.py                           *)
(* (class EnhancedFederatedLearningServer) as a state machine.             *)
(*                                                                         *)
(* One asyncio event loop runs one handle_client coroutine per connection, *)
(* the monitor_clients task and the periodic_aggregation task.  A          *)
(* coroutine runs without interruption from one await to the next, so an   *)
(* action of the model is the code between two suspension points.  The     *)
(* only awaits that wait for the outside world are the receive of the      *)
(* next message, the two sleeps and websocket.send; every send inside      *)
(* broadcast_to_clients is a point where the other tasks may run.          *)
(*                                                                         *)
(* Numbers.  Accuracies and privacy costs are carried in the state as      *)
(* hundredths (80 is the JSON literal 0.80) and data sizes as integers;    *)
(* the aggregation arithmetic of the code is IEEE binary64 and is computed *)
(* by the operators of the "binary64" section from these values.           *)
(***************************************************************************)
EXTENDS Integers, Sequences, FiniteSets, TLC

\* ------------------------------------------------------------------------
\* Bounds of the model
\* ------------------------------------------------------------------------
\* Total number of model_update messages the clients send.
MaxSubs == 4
\* Total number of keys ever inserted into the clients dict.
MaxSlots == 3
\* Largest round_number reached.
MaxRound == 2
\* Connections that close.
MaxDrops == 1
\* Time advances MaxTicks times, by TickMinutes minutes each time.
MaxTicks == 2
TickMinutes == 10
\* The simulations started and the rounds a simulation is started with.
MaxRuns == 2
TotalRounds == 2
\* Bounds of the FederatedLearningService: rounds simulated, client processes.
MaxServiceRounds == 3
MaxClientProcesses == 2
\* The training requests a client serves.
MaxTrainings == 12
\* self.max_clients, the capacity of the registry.  The attribute is 10 after
\* construction; the model bounds it to 2 so that three clients reach it.
max_clients == 2

\* ------------------------------------------------------------------------
\* Configuration (EnhancedFederatedLearningServer.__init__)
\* ------------------------------------------------------------------------
\* self.min_clients
min_clients == 2
\* timedelta(minutes=10) of monitor_clients
inactive_minutes == 10

ClientIds == {"A", "B", "C"}
PERIODIC == "periodic"
CALLER == "caller"
Tasks == ClientIds \cup {PERIODIC, CALLER}
None == "None"
Hole == "-"

\* training_metrics of a model_update message: local_accuracy and
\* privacy_budget_used in hundredths, data_size as sent.
Metric(acc, size, cost) ==
    [local_accuracy |-> acc, data_size |-> size, privacy_budget_used |-> cost]
MetricsA == Metric(80, 100, 10)
MetricsB == Metric(90, 200, 10)

\* ------------------------------------------------------------------------
\* binary64
\* ------------------------------------------------------------------------
\* The arithmetic of the aggregation is Python float arithmetic: IEEE 754
\* binary64, every operation rounded to nearest, ties to even.  A natural
\* number is a sequence of limbs in base 2^15, least significant first,
\* without leading zero limbs.  A float is 0 or m * 2^e with m of exactly
\* 53 bits; none of the values the server computes is subnormal, and the
\* convergence score, the only one that can be negative, infinite or not a
\* number, has a representation of its own.
Base == 2^15
Pow2(n) == 2^n

RECURSIVE NTrim(_)
NTrim(a) ==
    IF a = <<>> THEN a
    ELSE IF a[Len(a)] = 0 THEN NTrim(SubSeq(a, 1, Len(a) - 1)) ELSE a

RECURSIVE NFromInt(_)
NFromInt(n) == IF n = 0 THEN <<>> ELSE <<n % Base>> \o NFromInt(n \div Base)

Limb(a, i) == IF i <= Len(a) THEN a[i] ELSE 0

RECURSIVE NAddFrom(_, _, _, _)
NAddFrom(a, b, i, c) ==
    IF i > Len(a) /\ i > Len(b)
    THEN IF c = 0 THEN <<>> ELSE <<c>>
    ELSE LET s == Limb(a, i) + Limb(b, i) + c
         IN <<s % Base>> \o NAddFrom(a, b, i + 1, s \div Base)
NAdd(a, b) == NAddFrom(a, b, 1, 0)

\* a - b for a >= b
RECURSIVE NSubFrom(_, _, _, _)
NSubFrom(a, b, i, c) ==
    IF i > Len(a) THEN <<>>
    ELSE LET s == a[i] - Limb(b, i) - c
         IN IF s < 0 THEN <<s + Base>> \o NSubFrom(a, b, i + 1, 1)
                     ELSE <<s>> \o NSubFrom(a, b, i + 1, 0)
NSub(a, b) == NTrim(NSubFrom(a, b, 1, 0))

\* -1, 0, 1 as a < b, a = b, a > b
RECURSIVE NCmpFrom(_, _, _)
NCmpFrom(a, b, i) ==
    IF i = 0 THEN 0
    ELSE IF a[i] < b[i] THEN -1
    ELSE IF a[i] > b[i] THEN 1
    ELSE NCmpFrom(a, b, i - 1)
NCmp(a, b) ==
    IF Len(a) < Len(b) THEN -1
    ELSE IF Len(a) > Len(b) THEN 1
    ELSE NCmpFrom(a, b, Len(a))

\* a * k for 0 <= k < Base
RECURSIVE NMulSmallFrom(_, _, _, _)
NMulSmallFrom(a, k, i, c) ==
    IF i > Len(a)
    THEN IF c = 0 THEN <<>> ELSE <<c>>
    ELSE LET s == a[i] * k + c
         IN <<s % Base>> \o NMulSmallFrom(a, k, i + 1, s \div Base)
NMulSmall(a, k) == IF k = 0 THEN <<>> ELSE NMulSmallFrom(a, k, 1, 0)

Zeros(n) == [i \in 1..n |-> 0]
NShiftLimbs(a, n) == IF a = <<>> THEN a ELSE Zeros(n) \o a

RECURSIVE NMulFrom(_, _, _)
NMulFrom(a, b, i) ==
    IF i > Len(b) THEN <<>>
    ELSE NAdd(NShiftLimbs(NMulSmall(a, b[i]), i - 1), NMulFrom(a, b, i + 1))
NMul(a, b) == NMulFrom(a, b, 1)

\* a * 2^n
NShl(a, n) == NShiftLimbs(NMulSmall(a, Pow2(n % 15)), n \div 15)

\* floor(a / k) for 0 < k < Base, from limb i down, with remainder r
RECURSIVE NDivSmallFrom(_, _, _, _)
NDivSmallFrom(a, k, i, r) ==
    IF i = 0 THEN <<>>
    ELSE LET s == r * Base + a[i]
         IN NDivSmallFrom(a, k, i - 1, s % k) \o <<s \div k>>
NDivSmall(a, k) == NTrim(NDivSmallFrom(a, k, Len(a), 0))

\* floor(a / 2^n)
NShr(a, n) ==
    LET d == n \div 15
    IN IF d >= Len(a) THEN <<>>
       ELSE NDivSmall(SubSeq(a, d + 1, Len(a)), Pow2(n % 15))

RECURSIVE BitLen(_)
BitLen(k) == IF k = 0 THEN 0 ELSE 1 + BitLen(k \div 2)
NBitLen(a) == IF a = <<>> THEN 0 ELSE 15 * (Len(a) - 1) + BitLen(a[Len(a)])

\* The largest q with q * d <= r, for r < d * Base and the top limb of d at
\* least Base / 2: the estimate from the leading limbs is at most 2 too large.
RECURSIVE QDigitFrom(_, _, _)
QDigitFrom(r, d, q) ==
    IF NCmp(NMulSmall(d, q), r) <= 0 THEN q ELSE QDigitFrom(r, d, q - 1)
QDigit(r, d) ==
    IF NCmp(r, d) < 0 THEN 0
    ELSE LET n == Len(d)
             top == IF Len(r) > n THEN r[n + 1] * Base + r[n] ELSE r[n]
             est == top \div d[n]
         IN QDigitFrom(r, d, IF est >= Base THEN Base - 1 ELSE est)

\* <<floor(a / d), a mod d # 0>> by long division, limb i of a downwards
RECURSIVE NDivFrom(_, _, _, _, _)
NDivFrom(a, d, i, q, r) ==
    IF i = 0 THEN <<NTrim(q), r # <<>>>>
    ELSE LET r1 == NTrim(<<a[i]>> \o r)
             qd == QDigit(r1, d)
         IN NDivFrom(a, d, i - 1, <<qd>> \o q, NSub(r1, NMulSmall(d, qd)))
NDiv(a, d) ==
    LET s == 15 * Len(d) - NBitLen(d)
        a1 == NShl(a, s)
    IN NDivFrom(a1, NShl(d, s), Len(a1), <<>>, <<>>)

FZero == [m |-> <<>>, e |-> 0]

\* The float nearest to (M + f) * 2^E, where 0 <= f < 1 and sticky tells
\* whether f > 0; with sticky, M has more than 54 bits.
FRound(M, E, sticky) ==
    IF M = <<>> THEN FZero
    ELSE LET n == NBitLen(M)
         IN IF n <= 53
            THEN [m |-> NShl(M, 53 - n), e |-> E - (53 - n)]
            ELSE LET sh == n - 53
                     q == NShr(M, sh)
                     r == NSub(M, NShl(q, sh))
                     c == NCmp(r, NShl(<<1>>, sh - 1))
                     up == \/ c > 0
                           \/ c = 0 /\ sticky
                           \/ c = 0 /\ q[1] % 2 = 1
                     q1 == IF up THEN NAdd(q, <<1>>) ELSE q
                 IN IF NBitLen(q1) > 53
                    THEN [m |-> NShr(q1, 1), e |-> E + sh + 1]
                    ELSE [m |-> q1, e |-> E + sh]

FFromInt(n) == FRound(NFromInt(n), 0, FALSE)

FAdd(x, y) ==
    IF x.m = <<>> THEN y
    ELSE IF y.m = <<>> THEN x
    ELSE LET e == IF x.e < y.e THEN x.e ELSE y.e
         IN FRound(NAdd(NShl(x.m, x.e - e), NShl(y.m, y.e - e)), e, FALSE)

FLess(x, y) ==
    IF y.m = <<>> THEN FALSE
    ELSE IF x.m = <<>> THEN TRUE
    ELSE IF x.e # y.e THEN x.e < y.e
    ELSE NCmp(x.m, y.m) < 0

\* max(0, x - y)
FSubPos(x, y) ==
    IF ~FLess(y, x) THEN FZero
    ELSE IF y.m = <<>> THEN x
    ELSE LET e == IF x.e < y.e THEN x.e ELSE y.e
         IN FRound(NSub(NShl(x.m, x.e - e), NShl(y.m, y.e - e)), e, FALSE)

FMul(x, y) ==
    IF x.m = <<>> \/ y.m = <<>> THEN FZero
    ELSE FRound(NMul(x.m, y.m), x.e + y.e, FALSE)

\* x / y for y # 0
FDiv(x, y) ==
    IF x.m = <<>> THEN FZero
    ELSE LET qr == NDiv(NShl(x.m, 55), y.m)
         IN FRound(qr[1], x.e - y.e - 55, qr[2])

\* |x - y|
FAbsDiff(x, y) == IF FLess(x, y) THEN FSubPos(y, x) ELSE FSubPos(x, y)

\* floor(sqrt(a)) by Newton's iteration downwards from x >= sqrt(a)
RECURSIVE NSqrtFrom(_, _)
NSqrtFrom(a, x) ==
    LET y == NShr(NAdd(x, NDiv(a, x)[1]), 1)
    IN IF NCmp(y, x) >= 0 THEN x ELSE NSqrtFrom(a, y)
NSqrt(a) ==
    IF a = <<>> THEN a
    ELSE NSqrtFrom(a, NShl(<<1>>, (NBitLen(a) + 1) \div 2))

\* sqrt(x): the root of the mantissa scaled to 110 or 111 bits has 55 or 56
\* bits, and it is inexact when its square is not the scaled mantissa.
FSqrt(x) ==
    IF x.m = <<>> THEN FZero
    ELSE LET k == IF (x.e - 57) % 2 = 0 THEN 57 ELSE 58
             M == NShl(x.m, k)
             r == NSqrt(M)
         IN FRound(r, (x.e - k) \div 2, NCmp(NMul(r, r), M) # 0)

FMin(x, y) == IF FLess(y, x) THEN y ELSE x
FMax(x, y) == IF FLess(x, y) THEN y ELSE x

\* The float of the JSON literal n / 100.
Hundred == FFromInt(100)
Hundredths(n) == FDiv(FFromInt(n), Hundred)

\* The literals 0.1, 0.5, 1 and 2.0 of _calculate_contribution_weight.
Tenth == Hundredths(10)
Half == Hundredths(50)
One == FFromInt(1)
Two == FFromInt(2)

\* ------------------------------------------------------------------------
\* The arithmetic of a round
\* ------------------------------------------------------------------------
\* A variant of _calculate_contribution_weight without the upper clamp
\* min(2.0, .); with it the worked example of C10 fails.
calculate_contribution_weight_unclamped(u) ==
    LET base_weight == FDiv(FFromInt(u.data_size), Hundred)
        accuracy_bonus == FMul(FSubPos(Hundredths(u.accuracy), Half), Two)
        final_weight == FMul(FMul(base_weight, FAdd(One, accuracy_bonus)),
                             Hundredths(u.reputation_factor))
    IN FMax(Tenth, final_weight)

\* _calculate_contribution_weight, from the fields of the buffered update u:
\* max(0.1, min(2.0, data_size / 100.0 * (1 + max(0, accuracy - 0.5) * 2.0)
\* * reputation_factor)).
calculate_contribution_weight(u) ==
    LET base_weight == FDiv(FFromInt(u.data_size), Hundred)
        accuracy_bonus == FMul(FSubPos(Hundredths(u.accuracy), Half), Two)
        final_weight == FMul(FMul(base_weight, FAdd(One, accuracy_bonus)),
                             Hundredths(u.reputation_factor))
    IN FMax(Tenth, FMin(Two, final_weight))

\* A numpy.float64 that may be negative, infinite or not a number: the
\* quotient and the difference of the convergence score.
NaN == [kind |-> "nan", neg |-> FALSE, abs |-> FZero]
Inf(neg) == [kind |-> "inf", neg |-> neg, abs |-> FZero]
Num(neg, x) == [kind |-> "num", neg |-> neg, abs |-> x]

\* x / y of numpy.float64 for x, y >= 0: a division by zero gives inf, or
\* nan for 0 / 0, with a RuntimeWarning and no exception.
Float64Div(x, y) ==
    IF y.m # <<>> THEN Num(FALSE, FDiv(x, y))
    ELSE IF x.m = <<>> THEN NaN ELSE Inf(FALSE)

\* 1.0 - r for r >= 0, inf or nan
OneMinus(r) ==
    IF r.kind = "nan" THEN NaN
    ELSE IF r.kind = "inf" THEN Inf(TRUE)
    ELSE IF FLess(One, r.abs) THEN Num(TRUE, FSubPos(r.abs, One))
    ELSE Num(FALSE, FSubPos(One, r.abs))

\* The values of a dict, in one order.  sum() adds from the left in insertion
\* order; the sums below are taken over buffers of at most two entries, where
\* the order does not change the result.
RECURSIVE Values(_)
Values(d) ==
    IF DOMAIN d = {} THEN <<>>
    ELSE LET k == CHOOSE k \in DOMAIN d : TRUE
         IN <<d[k]>> \o Values([j \in DOMAIN d \ {k} |-> d[j]])

\* The contribution_weight fields of the updates us.
RECURSIVE Weights(_)
Weights(us) ==
    IF us = <<>> THEN <<>>
    ELSE <<calculate_contribution_weight(Head(us))>> \o Weights(Tail(us))

\* sum(...) over the first n terms: 0 + x1 + ... + xn.
RECURSIVE SumWeights(_, _)
SumWeights(ws, n) ==
    IF n = 0 THEN FZero ELSE FAdd(SumWeights(ws, n - 1), ws[n])

RECURSIVE SumAccuracies(_, _, _, _)
SumAccuracies(us, ws, tw, n) ==
    IF n = 0 THEN FZero
    ELSE FAdd(SumAccuracies(us, ws, tw, n - 1),
              FMul(Hundredths(us[n].accuracy), FDiv(ws[n], tw)))

RECURSIVE SumPrivacyCosts(_, _)
SumPrivacyCosts(us, n) ==
    IF n = 0 THEN FZero
    ELSE FAdd(SumPrivacyCosts(us, n - 1), Hundredths(us[n].privacy_cost))

\* total_weight, global_accuracy and total_privacy_cost of
\* enhanced_aggregate_models for the buffer buf.
total_weight(buf) ==
    LET ws == Weights(Values(buf)) IN SumWeights(ws, Len(ws))

global_accuracy(buf) ==
    LET us == Values(buf)
        ws == Weights(us)
    IN SumAccuracies(us, ws, SumWeights(ws, Len(ws)), Len(us))

total_privacy_cost(buf) ==
    LET us == Values(buf) IN SumPrivacyCosts(us, Len(us))

\* accuracies = [client["accuracy"] for client in ...values()]
RECURSIVE Accuracies(_)
Accuracies(us) ==
    IF us = <<>> THEN <<>>
    ELSE <<Hundredths(Head(us).accuracy)>> \o Accuracies(Tail(us))

\* numpy.add.reduce over the first n floats of xs, n >= 1.
RECURSIVE SumFloats(_, _)
SumFloats(xs, n) ==
    IF n = 1 THEN xs[1] ELSE FAdd(SumFloats(xs, n - 1), xs[n])

\* np.mean(xs) of a non-empty list: the sum divided by the count.
np_mean(xs) == FDiv(SumFloats(xs, Len(xs)), FFromInt(Len(xs)))

\* np.std(xs) of a non-empty list: the root of the mean of the squares of
\* the deviations from the mean.
np_std(xs) ==
    LET arrmean == np_mean(xs)
        x == [i \in DOMAIN xs |-> FAbsDiff(xs[i], arrmean)]
    IN FSqrt(np_mean([i \in DOMAIN xs |-> FMul(x[i], x[i])]))

\* convergence_score of enhanced_aggregate_models for the buffer buf:
\* 1.0 - (np.std(accuracies) / np.mean(accuracies)) if accuracies else 0.0.
convergence_score(buf) ==
    LET accuracies == Accuracies(Values(buf))
    IN IF accuracies = <<>> THEN Num(FALSE, FZero)
       ELSE OneMinus(Float64Div(np_std(accuracies), np_mean(accuracies)))

VARIABLES
    clients,              \* self.clients: client_id -> session
    slots,                \* insertion order of self.clients (dict entries, Hole = deleted)
    aggregation_weights,  \* self.aggregation_weights: client_id -> buffered update
    round_number,         \* self.round_number
    fl_rounds,            \* rows of the fl_rounds table with their participation rows
    pc,                   \* where each task is: "idle", "broadcast" or "stopped"
    handler_client_id,    \* local client_id of each handle_client coroutine
    conn,                 \* each connection: "open", "closed_ok", "closed_err"
    bcast,                \* locals of a task suspended in broadcast_to_clients
    replies,              \* the last registration reply each websocket has delivered
    received,             \* rounds of the aggregation_complete messages each websocket has delivered
    sent,                 \* model_update messages of each client handled so far (names the updates)
    now,                  \* datetime.now(), in minutes
    evicted,              \* history: updates purged by monitor_clients, with the rounds stored then
    db_failed,            \* history: the calls of _save_round_to_db that raised, with the INSERTs executed
    last_message,         \* history: when handle_client last took a message of each client that had a session
    is_running,           \* FederatedLearningSimulator.is_running
    sim_round_number,     \* FederatedLearningSimulator.round_number
    training_history,     \* FederatedLearningSimulator.training_history: the run and the round of each result
    sim_threads,          \* the simulation threads started so far: where each is, and its round_num
    sim_reply,            \* what the last call of start_simulation or stop_simulation returned
    server_running,       \* FederatedLearningService.server_running
    fl_server_process,    \* FederatedLearningService.fl_server_process: None, or the state of the process
    client_processes,     \* FederatedLearningService.client_processes: the state of each process
    svc_fl_rounds,        \* FederatedLearningService.fl_rounds: the round_number of each entry
    current_round,        \* FederatedLearningService.current_round
    svc_reply,            \* the last call of the service and the success it returned
    local_data,           \* EnhancedFederatedLearningClient.local_data
    local_model,          \* EnhancedFederatedLearningClient.local_model
    privacy_budget,       \* EnhancedFederatedLearningClient.privacy_budget
    trainings,            \* len(EnhancedFederatedLearningClient.training_history)
    noised,               \* history: the calls of add_privacy_noise that returned
    update_sent           \* history: whether the last training request sent a model_update

registry == <<clients, slots, aggregation_weights>>
rounds == <<round_number, fl_rounds, db_failed>>
tasks == <<pc, conn, bcast>>
\* The state of the FederatedLearningSimulator, a program of its own.
simulator == <<is_running, sim_round_number, training_history, sim_threads, sim_reply>>
\* The state of the FederatedLearningService, a program of its own.
service == <<server_running, fl_server_process, client_processes, svc_fl_rounds,
             current_round, svc_reply>>
\* The state of an EnhancedFederatedLearningClient, a program of its own.
fl_client == <<local_data, local_model, privacy_budget, trainings, noised, update_sent>>
\* What a step of the server leaves alone.
elsewhere == <<simulator, service, fl_client>>
\* The state of the server.
server == <<clients, slots, aggregation_weights, round_number, fl_rounds, pc,
            handler_client_id, conn, bcast, replies, received, sent, now,
            evicted, db_failed, last_message>>
vars == <<clients, slots, aggregation_weights, round_number, fl_rounds, pc,
          handler_client_id, conn, bcast, replies, received, sent, now,
          evicted, db_failed, last_message, elsewhere>>

\* ------------------------------------------------------------------------
\* Dicts
\* ------------------------------------------------------------------------
EmptyDict == [k \in {} |-> 0]
Pop(d, k) == [x \in DOMAIN d \ {k} |-> d[x]]
\* A variant of the store of a dict that keeps the value a key already has;
\* with it C16 fails.
Put_keeps_first(d, k, v) ==
    [x \in DOMAIN d \cup {k} |-> IF x \in DOMAIN d THEN d[x] ELSE v]
Put(d, k, v) == [x \in DOMAIN d \cup {k} |-> IF x = k THEN v ELSE d[x]]
Len0(d) == Cardinality(DOMAIN d)

\* Index of the first entry of the dict at or after position from, 0 if none.
NextEntry(sl, from) ==
    LET live == {i \in from..Len(sl) : sl[i] # Hole}
    IN IF live = {} THEN 0 ELSE CHOOSE i \in live : \A j \in live : i <= j

RECURSIVE Sum(_, _)
Sum(f, S) ==
    IF S = {} THEN 0
    ELSE LET x == CHOOSE y \in S : TRUE IN f[x] + Sum(f, S \ {x})

\* ------------------------------------------------------------------------
\* Sessions (register_client, handle_client_disconnect)
\* ------------------------------------------------------------------------
NewSession(ws, t) ==
    [websocket |-> ws, last_seen |-> t, reputation_score |-> 100,
     total_contributions |-> 0, privacy_budget |-> 100]

\* A variant of the capacity test of register_client that lets one more
\* session in; with it C6 fails.
AtCapacity_above(cl) == Len0(cl) > max_clients

\* if len(self.clients) >= self.max_clients
AtCapacity(cl) == Len0(cl) >= max_clients

\* The three dicts handle_client_disconnect works on.
State(cl, sl, buf) == [clients |-> cl, slots |-> sl, aggregation_weights |-> buf]

\* A variant of handle_client_disconnect that leaves the buffered update of
\* the client in aggregation_weights; with it C5 fails.
handle_client_disconnect_keeps_update(st, id) ==
    [clients |-> Pop(st.clients, id),
     slots |-> [i \in DOMAIN st.slots |->
                   IF st.slots[i] = id THEN Hole ELSE st.slots[i]],
     aggregation_weights |-> st.aggregation_weights]

\* A variant of handle_client_disconnect that purges the buffered update
\* only of an id that has no session; with it C20 fails.
handle_client_disconnect_either(st, id) ==
    IF id \in DOMAIN st.clients
    THEN [clients |-> Pop(st.clients, id),
          slots |-> [i \in DOMAIN st.slots |->
                        IF st.slots[i] = id THEN Hole ELSE st.slots[i]],
          aggregation_weights |-> st.aggregation_weights]
    ELSE [st EXCEPT !.aggregation_weights = Pop(st.aggregation_weights, id)]

\* handle_client_disconnect: del self.clients[id], del
\* self.aggregation_weights[id] where present.
handle_client_disconnect(st, id) ==
    [clients |-> Pop(st.clients, id),
     slots |-> [i \in DOMAIN st.slots |->
                   IF st.slots[i] = id THEN Hole ELSE st.slots[i]],
     aggregation_weights |-> Pop(st.aggregation_weights, id)]

RECURSIVE DisconnectAll(_, _)
DisconnectAll(st, ids) ==
    IF ids = {} THEN st
    ELSE LET id == CHOOSE x \in ids : TRUE
         IN DisconnectAll(handle_client_disconnect(st, id), ids \ {id})

\* ------------------------------------------------------------------------
\* Aggregation (enhanced_aggregate_models, broadcast_to_clients)
\* ------------------------------------------------------------------------
NoBcast == [round |-> 0, weights |-> EmptyDict, participating_clients |-> 0,
            contributors |-> {}, pos |-> 0, size |-> 0,
            target |-> None, disconnected |-> {}]

\* What a task does from a point of its broadcast loop to its next
\* suspension: the outcome names the task's next pc and locals, the three
\* dicts and the websocket whose send it has called.  send hands the message
\* to the connection when it is called and suspends until the connection
\* has taken it, so a connection delivers its messages in the order of the
\* calls of send.  next() of the dict iterator raises RuntimeError when the
\* dict has changed size since the loop began; the exception leaves
\* broadcast_to_clients and enhanced_aggregate_models, so neither the
\* disconnected clients are removed nor is the buffer cleared.
Advance(st, b, from) ==
    IF Len0(st.clients) # b.size
    THEN [pc |-> "stopped", bcast |-> NoBcast, st |-> st, written |-> None]
    ELSE LET i == NextEntry(st.slots, from)
         IN IF i # 0
            THEN [pc |-> "broadcast",
                  bcast |-> [b EXCEPT !.pos = i, !.target = st.slots[i]],
                  st |-> st, written |-> st.slots[i]]
            ELSE LET after == DisconnectAll(st, b.disconnected)
                 IN [pc |-> "idle", bcast |-> NoBcast,
                     st |-> [after EXCEPT !.aggregation_weights = EmptyDict],
                     written |-> None]

\* The rows of a round in the History Store: the fl_rounds row, with its
\* participating_clients column, and under weights the client_participation
\* rows of the round.
RoundRow(rn, n, part) == [round |-> rn, participating_clients |-> n, weights |-> part]

\* The first n entries of the buffer, in the order of the loop of
\* _save_round_to_db.
RECURSIVE FirstEntries(_, _)
FirstEntries(buf, n) ==
    IF n = 0 \/ DOMAIN buf = {} THEN EmptyDict
    ELSE LET k == CHOOSE k \in DOMAIN buf : TRUE
         IN Put(FirstEntries(Pop(buf, k), n - 1), k, buf[k])

\* The INSERTs of one call of _save_round_to_db: one for the round and one
\* for each buffered update.
Inserts(buf) == 1 + Len0(buf)

\* A variant of _save_round_to_db whose connection commits every INSERT by
\* itself; with it C14 fails.
save_round_to_db_autocommit(rows, rn, buf, executed) ==
    IF executed = 0 THEN rows
    ELSE Append(rows, RoundRow(rn, Len0(buf), FirstEntries(buf, executed - 1)))

\* _save_round_to_db: the rows readers of the History Store see after a call
\* in which `executed` of the INSERTs ran before one raised (all of them
\* when none raised).  The INSERTs run in the one transaction the sqlite3
\* connection opens implicitly, and conn.commit() is the last statement but
\* one: an exception leaves the function before it, and the connection is
\* dropped with its transaction uncommitted.
save_round_to_db(rows, rn, buf, executed) ==
    IF executed = Inserts(buf)
    THEN Append(rows, RoundRow(rn, Len0(buf), FirstEntries(buf, executed - 1)))
    ELSE rows

\* A variant of enhanced_aggregate_models whose message counts the sessions
\* of the registry as participants; with it C24 fails.
enhanced_aggregate_models_counts_sessions(st, rn, saved) ==
    IF ~saved
    THEN [pc |-> "stopped", bcast |-> NoBcast, st |-> st, written |-> None]
    ELSE Advance(st,
                 [NoBcast EXCEPT !.round = rn, !.weights = st.aggregation_weights,
                                 !.participating_clients = Len0(st.clients),
                                 !.contributors = DOMAIN st.clients,
                                 !.size = Len0(st.clients)],
                 1)

\* enhanced_aggregate_models up to its first suspension.  saved tells whether
\* _save_round_to_db returned; when it raises, the exception leaves the
\* coroutine after round_number was incremented.
\* The message holds the count and the keys of the buffer as they are when
\* it is built, before the broadcast.
enhanced_aggregate_models(st, rn, saved) ==
    IF ~saved
    THEN [pc |-> "stopped", bcast |-> NoBcast, st |-> st, written |-> None]
    ELSE Advance(st,
                 [NoBcast EXCEPT !.round = rn, !.weights = st.aggregation_weights,
                                 !.participating_clients = Len0(st.aggregation_weights),
                                 !.contributors = DOMAIN st.aggregation_weights,
                                 !.size = Len0(st.clients)],
                 1)

\* A variant of the trigger condition that fires on any buffered update; with
\* it C15 fails.
should_trigger_any(buf) == Len0(buf) >= 1

\* The condition of both triggers: handle_model_update after it has stored
\* the update, periodic_aggregation after each sleep.
should_trigger(buf) == Len0(buf) >= min_clients

\* A task whose coroutine an exception has left: handle_client logs it and
\* returns, which closes the connection; the periodic task is gone.
Leaves(t, out) ==
    /\ pc' = [pc EXCEPT ![t] = out.pc]
    /\ bcast' = [bcast EXCEPT ![t] = out.bcast]
    /\ conn' = IF out.pc = "stopped" /\ t \in ClientIds /\ conn[t] = "open"
               THEN [conn EXCEPT ![t] = "closed_ok"] ELSE conn

\* fl_rounds.round_number is the PRIMARY KEY of its table: the INSERT of a
\* round number that a stored row has raises sqlite3.IntegrityError.
RoundStored(rows, rn) == \E i \in DOMAIN rows : rows[i].round = rn

\* The message of round rn reaches the websocket whose send the outcome out
\* has called, if its connection is open.
Sends(out, rn) ==
    received' = IF out.written # None /\ conn[out.written] = "open"
                THEN [received EXCEPT ![out.written] = Append(@, rn)]
                ELSE received

\* The effect of a call of enhanced_aggregate_models by task t on the state
\* st that its caller leaves.
Aggregating(t, st, saved) ==
    LET rn == round_number + 1
        out == enhanced_aggregate_models(st, rn, saved)
    IN /\ round_number < MaxRound
       /\ round_number' = rn
       /\ \E executed \in 0..Inserts(st.aggregation_weights) :
             /\ RoundStored(fl_rounds, rn) => executed = 0
             /\ saved <=> executed = Inserts(st.aggregation_weights)
             /\ fl_rounds' = save_round_to_db(fl_rounds, rn, st.aggregation_weights,
                                              executed)
             /\ db_failed' = IF saved THEN db_failed
                             ELSE db_failed \cup {[round |-> rn, task |-> t,
                                                    live |-> DOMAIN st.clients,
                                                    executed |-> executed]}
       /\ clients' = out.st.clients
       /\ slots' = out.st.slots
       /\ aggregation_weights' = out.st.aggregation_weights
       /\ Sends(out, rn)
       /\ Leaves(t, out)

\* ------------------------------------------------------------------------
\* Init
\* ------------------------------------------------------------------------
Init ==
    /\ clients = EmptyDict
    /\ slots = <<>>
    /\ aggregation_weights = EmptyDict
    /\ round_number = 0
    /\ fl_rounds = <<>>
    /\ pc = [t \in Tasks |-> "idle"]
    /\ handler_client_id = [c \in ClientIds |-> None]
    /\ conn = [c \in ClientIds |-> "open"]
    /\ bcast = [t \in Tasks |-> NoBcast]
    /\ replies = [c \in ClientIds |-> None]
    /\ received = [c \in ClientIds |-> <<>>]
    /\ sent = [c \in ClientIds |-> 0]
    /\ now = 0
    /\ evicted = {}
    /\ db_failed = {}
    /\ last_message = [c \in ClientIds |-> 0]
    /\ is_running = FALSE
    /\ sim_round_number = 0
    /\ training_history = <<>>
    /\ sim_threads = <<>>
    /\ sim_reply = None
    /\ server_running = FALSE
    /\ fl_server_process = None
    /\ client_processes = <<>>
    /\ svc_fl_rounds = <<>>
    /\ current_round = 0
    /\ svc_reply = [call |-> None, success |-> FALSE]
    /\ local_data = None
    /\ local_model = None
    /\ privacy_budget = Num(FALSE, One)
    /\ trainings = 0
    /\ noised = 0
    /\ update_sent = FALSE

\* ------------------------------------------------------------------------
\* handle_client: one action per message type
\* ------------------------------------------------------------------------
\* The server treats every client_id alike, so of the runs that differ only
\* in the names of the clients the model keeps the one in which the clients
\* send their first message in the order A, B, C.
Active(c) == replies[c] # None \/ sent[c] > 0 \/ conn[c] # "open"
Before(c) == IF c = "A" THEN {} ELSE IF c = "B" THEN {"A"} ELSE {"A", "B"}
InTurn(c) == \A d \in Before(c) : Active(d)

Receives(c) == pc[c] = "idle" /\ conn[c] = "open" /\ InTurn(c)

\* handle_client takes a message of client c at the time now; has_session
\* tells whether c is a registered client.
Message(c, has_session) ==
    last_message' = IF has_session THEN [last_message EXCEPT ![c] = now]
                    ELSE last_message

\* {"type": "register"}: register_client.
Register(c) ==
    /\ Receives(c)
    /\ c \in DOMAIN clients \/ Len(slots) < MaxSlots
    /\ IF AtCapacity(clients)
       THEN /\ replies' = [replies EXCEPT ![c] = "registration_rejected"]
            /\ handler_client_id' = [handler_client_id EXCEPT ![c] = None]
            /\ UNCHANGED <<clients, slots>>
       ELSE /\ clients' = Put(clients, c, NewSession(c, now))
            /\ slots' = IF c \in DOMAIN clients THEN slots ELSE Append(slots, c)
            /\ replies' = [replies EXCEPT ![c] = "registration_confirmed"]
            /\ handler_client_id' = [handler_client_id EXCEPT ![c] = c]
    /\ Message(c, c \in DOMAIN clients')
    /\ UNCHANGED <<aggregation_weights, rounds, tasks, received, sent, now, evicted>>
    /\ UNCHANGED elsewhere

\* The entry handle_model_update stores.  sid names the update (the client
\* and the number of the update among the client's); late records that the
\* message was tagged with a round lower than round_number.  The code reads
\* no round tag.
Update(c, m, tag) ==
    [sid |-> <<c, sent[c] + 1>>,
     data_size |-> m.data_size,
     accuracy |-> m.local_accuracy,
     privacy_cost |-> m.privacy_budget_used,
     reputation_factor |-> IF c \in DOMAIN clients
                           THEN clients[c].reputation_score ELSE 100,
     late |-> tag < round_number]

Contributed(cl, c, t) ==
    IF c \in DOMAIN cl
    THEN [cl EXCEPT ![c].total_contributions = @ + 1, ![c].last_seen = t]
    ELSE cl

\* {"type": "model_update"}: handle_model_update.
ModelUpdate(c, m, tag, saved) ==
    /\ Receives(c)
    /\ Sum(sent, ClientIds) < MaxSubs
    /\ sent' = [sent EXCEPT ![c] = @ + 1]
    /\ LET st == State(Contributed(clients, c, now), slots,
                       Put(aggregation_weights, c, Update(c, m, tag)))
       IN IF should_trigger(st.aggregation_weights)
          THEN Aggregating(c, st, saved)
          ELSE /\ saved
               /\ clients' = st.clients
               /\ aggregation_weights' = st.aggregation_weights
               /\ UNCHANGED <<slots, rounds, tasks, received>>
    /\ Message(c, c \in DOMAIN clients)
    /\ UNCHANGED <<handler_client_id, replies, now, evicted>>
    /\ UNCHANGED elsewhere

\* {"type": "heartbeat"}: handle_heartbeat.
Heartbeat(c) ==
    /\ Receives(c)
    /\ clients' = IF c \in DOMAIN clients THEN [clients EXCEPT ![c].last_seen = now]
                                          ELSE clients
    /\ Message(c, c \in DOMAIN clients)
    /\ UNCHANGED <<slots, aggregation_weights, rounds, tasks, handler_client_id,
                   replies, received, sent, now, evicted>>
    /\ UNCHANGED elsewhere

\* {"type": "evaluation_result"}: handle_evaluation_result logs the accuracy.
EvaluationResult(c) ==
    /\ Receives(c)
    /\ Message(c, c \in DOMAIN clients)
    /\ UNCHANGED <<registry, rounds, tasks, handler_client_id, replies, received,
                   sent, now, evicted>>
    /\ UNCHANGED elsewhere

\* The connection of c closes: cleanly (the async for ends) or with an error
\* (the async for raises ConnectionClosed).
Drop(c, how) ==
    /\ conn[c] = "open"
    /\ InTurn(c)
    /\ Cardinality({d \in ClientIds : conn[d] # "open"}) < MaxDrops
    /\ conn' = [conn EXCEPT ![c] = how]
    /\ UNCHANGED <<registry, rounds, pc, bcast, handler_client_id, replies,
                   received, sent, now, evicted, last_message>>
    /\ UNCHANGED elsewhere

\* handle_client leaves its loop on a closed connection; only the except
\* clause of ConnectionClosed calls handle_client_disconnect, and only for a
\* client_id that register_client returned.
HandlerExit(c) ==
    /\ pc[c] = "idle"
    /\ conn[c] \in {"closed_ok", "closed_err"}
    /\ pc' = [pc EXCEPT ![c] = "stopped"]
    /\ conn' = [conn EXCEPT ![c] = "closed_ok"]
    /\ LET st == State(clients, slots, aggregation_weights)
           out == IF conn[c] = "closed_err" /\ handler_client_id[c] # None
                  THEN handle_client_disconnect(st, handler_client_id[c])
                  ELSE st
       IN /\ clients' = out.clients
          /\ slots' = out.slots
          /\ aggregation_weights' = out.aggregation_weights
    /\ UNCHANGED <<rounds, bcast, handler_client_id, replies, received, sent,
                   now, evicted, last_message>>
    /\ UNCHANGED elsewhere

\* A task suspended in a send of broadcast_to_clients resumes: the send has
\* returned or raised, and the loop runs to its next send or to the end of
\* enhanced_aggregate_models.
BroadcastStep(t) ==
    /\ pc[t] = "broadcast"
    /\ LET b == bcast[t]
           ok == conn[b.target] = "open"
           b1 == IF ok THEN b ELSE [b EXCEPT !.disconnected = @ \cup {b.target}]
           out == Advance(State(clients, slots, aggregation_weights), b1, b.pos + 1)
       IN /\ Sends(out, b.round)
          /\ clients' = out.st.clients
          /\ slots' = out.st.slots
          /\ aggregation_weights' = out.st.aggregation_weights
          /\ Leaves(t, out)
    /\ UNCHANGED <<rounds, handler_client_id, replies, sent, now, evicted, last_message>>
    /\ UNCHANGED elsewhere

\* ------------------------------------------------------------------------
\* The background tasks
\* ------------------------------------------------------------------------
\* Time passes.
Tick ==
    /\ now < MaxTicks * TickMinutes
    /\ now' = now + TickMinutes
    /\ UNCHANGED <<registry, rounds, tasks, handler_client_id, replies, received,
                   sent, evicted, last_message>>
    /\ UNCHANGED elsewhere

\* A variant of the scan of monitor_clients that takes a session for
\* inactive as soon as its last_seen is the timeout old; with it C23 fails.
inactive_clients_at(cl, t) ==
    {c \in DOMAIN cl : t - cl[c].last_seen >= inactive_minutes}

\* One scan of monitor_clients that finds inactive clients.
inactive_clients(cl, t) ==
    {c \in DOMAIN cl : t - cl[c].last_seen > inactive_minutes}

MonitorClients ==
    /\ inactive_clients(clients, now) # {}
    /\ LET gone == inactive_clients(clients, now)
           out == DisconnectAll(State(clients, slots, aggregation_weights), gone)
       IN /\ clients' = out.clients
          /\ slots' = out.slots
          /\ aggregation_weights' = out.aggregation_weights
          /\ evicted' = evicted \cup
                 {<<aggregation_weights[c].sid, Len(fl_rounds)>> :
                     c \in gone \cap DOMAIN aggregation_weights}
    /\ UNCHANGED <<rounds, tasks, handler_client_id, replies, received, sent, now,
                   last_message>>
    /\ UNCHANGED elsewhere

\* periodic_aggregation wakes up from its sleep with a quorum in the buffer.
PeriodicAggregation(saved) ==
    /\ pc[PERIODIC] = "idle"
    /\ should_trigger(aggregation_weights)
    /\ Aggregating(PERIODIC, State(clients, slots, aggregation_weights), saved)
    /\ UNCHANGED <<handler_client_id, replies, sent, now, evicted, last_message>>
    /\ UNCHANGED elsewhere

\* ------------------------------------------------------------------------
\* The server and its clients
\* ------------------------------------------------------------------------
MetricsOf(c) == IF c = "A" THEN {MetricsA} ELSE {MetricsB}

\* The round a client tags its update with: the last round it has heard of.
KnownRound(c) == IF received[c] = <<>> THEN 0 ELSE received[c][Len(received[c])]

\* Clients that register and submit, the two aggregation triggers and the
\* History Store that may fail.
Next ==
    \/ \E c \in ClientIds : Register(c)
    \/ \E c \in ClientIds : \E m \in MetricsOf(c), saved \in BOOLEAN :
          ModelUpdate(c, m, KnownRound(c), saved)
    \/ \E t \in Tasks : BroadcastStep(t)
    \/ \E saved \in BOOLEAN : PeriodicAggregation(saved)

Spec == Init /\ [][Next]_vars

\* Two clients, the clock and the Liveness Monitor.
LiveClients == {"A", "B"}

NextLiveness ==
    \/ \E c \in LiveClients : Register(c)
    \/ \E c \in LiveClients : \E m \in MetricsOf(c) :
          ModelUpdate(c, m, KnownRound(c), TRUE)
    \/ \E c \in LiveClients : Heartbeat(c)
    \/ \E t \in Tasks : BroadcastStep(t)
    \/ PeriodicAggregation(TRUE)
    \/ MonitorClients
    \/ Tick

SpecLiveness == Init /\ [][NextLiveness]_vars

\* Two clients that register and send heartbeats, the clock and the
\* Liveness Monitor, whose task the event loop resumes after every sleep.
NextMonitor ==
    \/ \E c \in LiveClients : Register(c)
    \/ \E c \in LiveClients : Heartbeat(c)
    \/ MonitorClients
    \/ Tick

SpecMonitor == Init /\ [][NextMonitor]_vars /\ WF_vars(MonitorClients)

\* Two clients that send every type of message, the clock and the Liveness
\* Monitor.
NextMessages ==
    \/ \E c \in LiveClients : Register(c)
    \/ \E c \in LiveClients : \E m \in MetricsOf(c) :
          ModelUpdate(c, m, KnownRound(c), TRUE)
    \/ \E c \in LiveClients : Heartbeat(c)
    \/ \E c \in LiveClients : EvaluationResult(c)
    \/ \E t \in Tasks : BroadcastStep(t)
    \/ MonitorClients
    \/ Tick

SpecMessages == Init /\ [][NextMessages]_vars

\* The server process ends and a new one starts on the same fl_history.db:
\* __init__ sets the attributes anew, _init_database keeps the tables it
\* finds, the connections of the old process are gone and the clients
\* connect again.
Restart ==
    /\ fl_rounds # <<>>
    /\ clients' = EmptyDict
    /\ slots' = <<>>
    /\ aggregation_weights' = EmptyDict
    /\ round_number' = 0
    /\ pc' = [t \in Tasks |-> "idle"]
    /\ handler_client_id' = [c \in ClientIds |-> None]
    /\ conn' = [c \in ClientIds |-> "open"]
    /\ bcast' = [t \in Tasks |-> NoBcast]
    /\ UNCHANGED <<fl_rounds, db_failed, replies, received, sent, now, evicted,
                   last_message>>
    /\ UNCHANGED elsewhere

\* handle_model_update with a database that fails only on a round number
\* it already holds.
ModelUpdateKeyed(c, m) ==
    \E saved \in BOOLEAN :
        /\ saved \/ RoundStored(fl_rounds, round_number + 1)
        /\ ModelUpdate(c, m, KnownRound(c), saved)

\* Two clients and a server that is restarted.
NextRestart ==
    \/ \E c \in LiveClients : Register(c)
    \/ \E c \in LiveClients : \E m \in MetricsOf(c) : ModelUpdateKeyed(c, m)
    \/ \E t \in Tasks : BroadcastStep(t)
    \/ Restart

SpecRestart == Init /\ [][NextRestart]_vars

\* Two clients whose connections close.
NextConnections ==
    \/ \E c \in LiveClients : Register(c)
    \/ \E c \in LiveClients : \E m \in MetricsOf(c), saved \in BOOLEAN :
          ModelUpdate(c, m, KnownRound(c), saved)
    \/ \E c \in LiveClients, how \in {"closed_ok", "closed_err"} : Drop(c, how)
    \/ \E c \in LiveClients : HandlerExit(c)
    \/ \E t \in Tasks : BroadcastStep(t)
    \/ \E saved \in BOOLEAN : PeriodicAggregation(saved)

SpecConnections == Init /\ [][NextConnections]_vars

\* enhanced_aggregate_models awaited by a caller other than the two triggers;
\* the coroutine itself does not look at the size of the buffer.
AggregateCall ==
    /\ pc[CALLER] = "idle"
    /\ Aggregating(CALLER, State(clients, slots, aggregation_weights), TRUE)
    /\ UNCHANGED <<handler_client_id, replies, sent, now, evicted, last_message>>
    /\ UNCHANGED elsewhere

\* Two clients with several training results, and a caller of the
\* aggregation while the buffer is empty.
AggMetricsOf(c) ==
    IF c = "A" THEN {MetricsA, Metric(90, 20, 10)} ELSE {MetricsB}

NextAgg ==
    \/ \E c \in LiveClients : Register(c)
    \/ \E c \in LiveClients : \E m \in AggMetricsOf(c) :
          ModelUpdate(c, m, KnownRound(c), TRUE)
    \/ \E t \in Tasks : BroadcastStep(t)
    \/ aggregation_weights = EmptyDict /\ AggregateCall

SpecAgg == Init /\ [][NextAgg]_vars

\* Two clients whose training may end with no correct prediction at all.
MetricsZero == Metric(0, 100, 10)
ConvMetricsOf(c) == MetricsOf(c) \cup {MetricsZero}

NextConvergence ==
    \/ \E c \in LiveClients : Register(c)
    \/ \E c \in LiveClients : \E m \in ConvMetricsOf(c) :
          ModelUpdate(c, m, KnownRound(c), TRUE)
    \/ \E t \in Tasks : BroadcastStep(t)

SpecConvergence == Init /\ [][NextConvergence]_vars

\* ------------------------------------------------------------------------
\* FederatedLearningSimulator
\* ------------------------------------------------------------------------
\* start_simulation(rounds=n): refused while is_running; otherwise it
\* sets is_running, resets round_number and training_history and starts the
\* thread of the run, which is about to take the first round_num of its loop.
start_simulation(n) ==
    /\ IF is_running
       THEN /\ sim_reply' = "error"
            /\ UNCHANGED <<is_running, sim_round_number, training_history, sim_threads>>
       ELSE /\ Len(sim_threads) < MaxRuns
            /\ is_running' = TRUE
            /\ sim_round_number' = 0
            /\ training_history' = <<>>
            /\ sim_threads' = Append(sim_threads,
                                     [at |-> "loop", round_num |-> 1,
                                      total_rounds |-> n])
            /\ sim_reply' = "started"
    /\ UNCHANGED <<server, service, fl_client>>

\* stop_simulation
stop_simulation ==
    /\ is_running' = FALSE
    /\ sim_reply' = "stopped"
    /\ UNCHANGED <<sim_round_number, training_history, sim_threads, server, service, fl_client>>

\* _run_simulation in the thread of run r, from the head of its for loop to
\* time.sleep(2): the loop ends after total_rounds rounds or when is_running
\* is false; otherwise the round is simulated and its result appended.
RunRound(r) ==
    /\ r \in DOMAIN sim_threads
    /\ sim_threads[r].at = "loop"
    /\ LET th == sim_threads[r]
       IN IF th.round_num > th.total_rounds \/ ~is_running
          THEN /\ sim_threads' = [sim_threads EXCEPT ![r].at = "final"]
               /\ UNCHANGED <<sim_round_number, training_history>>
          ELSE /\ sim_round_number' = th.round_num
               /\ training_history' =
                     Append(training_history, [run |-> r, round |-> th.round_num])
               /\ sim_threads' = [sim_threads EXCEPT ![r].at = "sleep"]
    /\ UNCHANGED <<is_running, sim_reply, server, service, fl_client>>

\* time.sleep(2) of run r returns and the loop takes its next round_num.
WakeUp(r) ==
    /\ r \in DOMAIN sim_threads
    /\ sim_threads[r].at = "sleep"
    /\ sim_threads' = [sim_threads EXCEPT ![r].at = "loop", ![r].round_num = @ + 1]
    /\ UNCHANGED <<is_running, sim_round_number, training_history, sim_reply, server, service, fl_client>>

\* The end of _run_simulation of run r: is_running = False.
Finish(r) ==
    /\ r \in DOMAIN sim_threads
    /\ sim_threads[r].at = "final"
    /\ sim_threads' = [sim_threads EXCEPT ![r].at = "done"]
    /\ is_running' = FALSE
    /\ UNCHANGED <<sim_round_number, training_history, sim_reply, server, service, fl_client>>

NextSimulator ==
    \/ \E n \in 1..TotalRounds : start_simulation(n)
    \/ stop_simulation
    \/ \E r \in 1..MaxRuns : RunRound(r)
    \/ \E r \in 1..MaxRuns : WakeUp(r)
    \/ \E r \in 1..MaxRuns : Finish(r)

SpecSimulator == Init /\ [][NextSimulator]_vars

\* ------------------------------------------------------------------------
\* Properties
\* ------------------------------------------------------------------------
\* The updates of a buffer, by name.
Sids(buf) == {buf[c].sid : c \in DOMAIN buf}
Rows == DOMAIN fl_rounds
Broadcasting == {t \in Tasks : pc[t] = "broadcast"}
Delivered(rn) == {c \in ClientIds : \E i \in DOMAIN received[c] : received[c][i] = rn}

\* C1: an aggregation of the buffer of round K produces exactly one
\* RoundResult for that buffer, which counts the N buffered updates, and
\* takes round_number from K to K+1: the i-th RoundResult stored is that of
\* round i, it counts the updates buffered at its trigger, and no two
\* RoundResults are made of the same buffer.
C1_OneRoundResultPerBuffer ==
    \A i \in Rows :
        /\ fl_rounds[i].round = i
        /\ Len0(fl_rounds[i].weights) >= min_clients
        /\ \A j \in Rows : (i # j) => Sids(fl_rounds[i].weights) # Sids(fl_rounds[j].weights)

\* C2: a second trigger that fires while an aggregation is suspended in its
\* broadcast aggregates nothing, so no two aggregations in progress hold the
\* same buffered update.
C2_SecondTriggerAggregatesNothing ==
    \A t \in Broadcasting : \A u \in Broadcasting \ {t} :
        Sids(bcast[t].weights) \cap Sids(bcast[u].weights) = {}

\* C3: every update in the buffer is that of a client with a live session.
C3_BufferedClientsAreLive ==
    DOMAIN aggregation_weights \subseteq DOMAIN clients

\* C4: an update tagged with a round lower than round_number is never
\* buffered and never part of a RoundResult.
C4_NoStaleUpdateAccepted ==
    /\ \A c \in DOMAIN aggregation_weights : ~aggregation_weights[c].late
    /\ \A i \in Rows : \A c \in DOMAIN fl_rounds[i].weights :
           ~fl_rounds[i].weights[c].late

\* C5: an update that monitor_clients purged with its client's session is
\* not in the buffer and not in any RoundResult produced after the eviction.
C5_EvictedUpdateNeverCounted ==
    \A e \in evicted :
        /\ e[1] \notin Sids(aggregation_weights)
        /\ \A i \in Rows : (i > e[2]) => e[1] \notin Sids(fl_rounds[i].weights)

\* A RoundResult was produced after an eviction purged an update.
C5_Witness ==
    \E e \in evicted : Len(fl_rounds) > e[2]

\* C6: the registry never holds more than max_clients sessions, and a
\* register request that finds it full changes nothing but the requester's
\* own reply, which is the rejection.
C6_RegistryWithinCapacity ==
    /\ [](Len0(clients) <= max_clients)
    /\ [][\A c \in ClientIds :
             (Register(c) /\ Len0(clients) >= max_clients) =>
                 /\ clients' = clients
                 /\ replies'[c] = "registration_rejected"
                 /\ \A d \in ClientIds \ {c} : replies'[d] = replies[d]
                 /\ received' = received]_vars

\* The registry is full and a client has been rejected.
C6_Witness ==
    /\ Len0(clients) = max_clients
    /\ \E c \in ClientIds \ DOMAIN clients : replies[c] = "registration_rejected"

\* C7: when the save of a round fails, the round's result is still broadcast
\* to the live clients, and the task that ran the aggregation goes on.
C7_FailedSaveStillBroadcast ==
    \A f \in db_failed :
        /\ pc[f.task] # "stopped"
        /\ (f.live # {}) =>
              \/ \E t \in Broadcasting : bcast[t].round = f.round
              \/ Delivered(f.round) # {}

\* C8: a call of the aggregation on an empty buffer consumes no round
\* number and neither stores nor broadcasts a RoundResult.
C8_EmptyBufferConsumesNoRound ==
    [][(aggregation_weights = EmptyDict /\ AggregateCall)
        => /\ round_number' = round_number
           /\ fl_rounds' = fl_rounds
           /\ pc'[CALLER] # "broadcast"]_vars

\* C9: the global_accuracy of every RoundResult over a non-empty buffer lies
\* between the smallest and the largest buffered accuracy.
C9_GlobalAccuracyConvex ==
    \A i \in Rows :
        LET buf == fl_rounds[i].weights
            ga == global_accuracy(buf)
        IN buf # EmptyDict =>
              /\ \E c \in DOMAIN buf : ~FLess(ga, Hundredths(buf[c].accuracy))
              /\ \E c \in DOMAIN buf : ~FLess(Hundredths(buf[c].accuracy), ga)

\* The buffer of the worked example: A with accuracy 0.80 and data_size 100,
\* B with accuracy 0.90 and data_size 200, both with privacy cost 0.1 and
\* reputation 1.0.
ExampleBuffer(buf) ==
    /\ DOMAIN buf = {"A", "B"}
    /\ buf["A"].accuracy = 80 /\ buf["A"].data_size = 100
    /\ buf["B"].accuracy = 90 /\ buf["B"].data_size = 200
    /\ \A c \in {"A", "B"} : buf[c].privacy_cost = 10 /\ buf[c].reputation_factor = 100

\* The literals of the worked example.
Weight_1_6 == Hundredths(160)
Weight_3_6 == Hundredths(360)
Accuracy_0_85555 == FDiv(FFromInt(85555), FFromInt(100000))
Accuracy_0_85565 == FDiv(FFromInt(85565), FFromInt(100000))
Privacy_0_2 == Hundredths(20)

\* C10: in round 1, the aggregation of the updates of registered clients A
\* (0.80, 100) and B (0.90, 200) weighs A with 1.6 and B with 2.0, 3.6 in
\* all, gives a global_accuracy that is 0.8556 to four places and a total
\* privacy cost of 0.2, and makes round_number 2.
C10_WorkedExample ==
    [][(/\ round_number = 1
        /\ {"A", "B"} \subseteq DOMAIN clients
        /\ Len(fl_rounds') = Len(fl_rounds) + 1
        /\ ExampleBuffer(fl_rounds'[Len(fl_rounds')].weights))
        => LET row == fl_rounds'[Len(fl_rounds')]
               ga == global_accuracy(row.weights)
           IN /\ row.round = 2
              /\ round_number' = 2
              /\ calculate_contribution_weight(row.weights["A"]) = Weight_1_6
              /\ calculate_contribution_weight(row.weights["B"]) = Two
              /\ total_weight(row.weights) = Weight_3_6
              /\ FLess(Accuracy_0_85555, ga)
              /\ FLess(ga, Accuracy_0_85565)
              /\ total_privacy_cost(row.weights) = Privacy_0_2]_vars

C10_Witness ==
    /\ round_number = 2
    /\ {"A", "B"} \subseteq DOMAIN clients
    /\ \E i \in Rows : fl_rounds[i].round = 2 /\ ExampleBuffer(fl_rounds[i].weights)

Max0(x) == IF x < 0 THEN 0 ELSE x

\* C11: a model_update of a registered client with declared privacy cost c
\* takes the privacy_budget of its session to max(0, privacy_budget - c).
C11_PrivacyBudgetDecreases ==
    [][\A c \in ClientIds : \A m \in MetricsOf(c), saved \in BOOLEAN :
          (/\ ModelUpdate(c, m, KnownRound(c), saved)
           /\ c \in DOMAIN clients
           /\ c \in DOMAIN clients')
          => clients'[c].privacy_budget =
                Max0(clients[c].privacy_budget - m.privacy_budget_used)]_vars

\* C12: a register message under an id that has a session keeps the
\* total_contributions and the reputation_score of that session.
C12_ReRegistrationPreserves ==
    [][\A c \in ClientIds :
          (Register(c) /\ c \in DOMAIN clients)
          => /\ clients'[c].total_contributions = clients[c].total_contributions
             /\ clients'[c].reputation_score = clients[c].reputation_score]_vars

\* C13: a broadcast in progress runs to its end whatever a send does and
\* whoever registers or is removed meanwhile; at its end every session with
\* an open connection has been sent the message and every client whose send
\* failed is out of the registry.
C13_BroadcastReachesEveryone ==
    [][\A t \in Tasks :
          pc[t] = "broadcast"
          => /\ pc'[t] # "stopped"
             /\ pc'[t] = "idle"
                => /\ \A c \in DOMAIN clients' :
                         conn[c] = "open"
                         => \E i \in DOMAIN received'[c] :
                               received'[c][i] = bcast[t].round
                   /\ bcast[t].disconnected \cap DOMAIN clients' = {}]_vars

\* C14: readers of the History Store see of every round either the round
\* row with all its participation rows or nothing: every visible round row
\* has as many participation rows as it counts participants, and a save
\* that raised, after however many INSERTs, has left no row of its round.
C14_SaveIsAtomic ==
    /\ \A i \in Rows :
          Len0(fl_rounds[i].weights) = fl_rounds[i].participating_clients
    /\ \A f \in db_failed : \A i \in Rows : fl_rounds[i].round # f.round

C14_Witness ==
    \E f \in db_failed : f.executed >= 2 /\ \E i \in Rows : fl_rounds[i].round > f.round


\* C15: no aggregation below quorum: every row of the History Store and
\* every message being broadcast counts at least min_clients participants,
\* and the periodic task starts an aggregation only on a buffer of at least
\* min_clients entries.
C15_NoAggregationBelowQuorum ==
    /\ [](/\ \A i \in Rows : fl_rounds[i].participating_clients >= min_clients
          /\ \A t \in Tasks :
                pc[t] = "broadcast" => Len0(bcast[t].weights) >= min_clients)
    /\ [][(pc[PERIODIC] = "idle" /\ pc'[PERIODIC] # "idle")
             => Len0(aggregation_weights) >= min_clients]_vars

C15_Witness ==
    /\ pc[PERIODIC] = "broadcast"
    /\ \E i \in Rows : /\ fl_rounds[i].round = bcast[PERIODIC].round
                       /\ fl_rounds[i].participating_clients = min_clients
    /\ \E t \in ClientIds : pc[t] = "broadcast"


\* C16: the buffer holds one submission per client_id, the last one: after
\* a model_update of a client, the entry under its id in the buffer, or in
\* the round row when the update completed the round, is that update, and
\* the round counts one participant per buffered id.
C16_LastSubmissionWins ==
    [][\A c \in LiveClients : \A m \in AggMetricsOf(c) :
          ModelUpdate(c, m, KnownRound(c), TRUE)
          => LET aggregated == Len(fl_rounds') > Len(fl_rounds)
                 row == fl_rounds'[Len(fl_rounds')]
                 counted == IF aggregated THEN row.weights
                            ELSE aggregation_weights'
             IN /\ c \in DOMAIN counted
                /\ counted[c] = Update(c, m, KnownRound(c))
                /\ aggregated
                   => row.participating_clients
                         = Cardinality(DOMAIN aggregation_weights \cup {c})]_vars

C16_Witness ==
    \E i \in Rows :
        /\ fl_rounds[i].participating_clients = 2
        /\ DOMAIN fl_rounds[i].weights = {"A", "B"}
        /\ fl_rounds[i].weights["A"].sid = <<"A", 2>>
        /\ fl_rounds[i].weights["A"].accuracy = 90
        /\ fl_rounds[i].weights["B"].sid = <<"B", 1>>
        /\ fl_rounds[i].round = 1


\* C17: every message handle_client takes of a registered client updates
\* the last_seen of its session: no session has a last_seen older than the
\* last message of its client.
C17_EveryMessageTouches ==
    \A c \in DOMAIN clients : clients[c].last_seen >= last_message[c]


\* C18: when the handler of a registered client's connection ends, on a
\* clean close, on an error close or on an exception raised while it
\* processes a message, the session of the client leaves the registry and
\* its update leaves the buffer.
C18_HandlerExitRemovesSession ==
    [][\A c \in ClientIds :
          (/\ pc[c] # "stopped"
           /\ pc'[c] = "stopped"
           /\ c \in DOMAIN clients)
          => /\ c \notin DOMAIN clients'
             /\ c \notin DOMAIN aggregation_weights']_vars


\* C19: the convergence score of every round stored lies in [0, 1], and it
\* is 0 when the mean of the buffered accuracies is 0 or when the round has
\* fewer than 2 submissions.
C19_ConvergenceScoreInUnitInterval ==
    \A i \in Rows :
        LET buf == fl_rounds[i].weights
            score == convergence_score(buf)
        IN /\ score.kind = "num"
           /\ ~score.neg
           /\ ~FLess(One, score.abs)
           /\ (Len0(buf) < 2 \/ np_mean(Accuracies(Values(buf))) = FZero)
              => score = Num(FALSE, FZero)


\* C20: removing a session is idempotent: in every state, removing an id
\* that has no session leaves the registry as it is, and removing an id
\* twice leaves the state that removing it once leaves; a handler that
\* removes, after an error close, a client that a broadcast has already
\* removed changes nothing in the registry.
C20_RemoveIdempotent ==
    /\ [](LET st == State(clients, slots, aggregation_weights)
          IN \A id \in ClientIds :
                LET once == handle_client_disconnect(st, id)
                IN /\ handle_client_disconnect(once, id) = once
                   /\ id \notin DOMAIN once.clients
                   /\ id \notin DOMAIN clients
                      => once.clients = clients /\ once.slots = slots)
    /\ [][\A c \in ClientIds :
             (HandlerExit(c) /\ conn[c] = "closed_err" /\ c \notin DOMAIN clients)
             => clients' = clients /\ slots' = slots]_vars

\* A broadcast has removed the session of a client whose send failed, and
\* the handler of the client is about to remove it a second time.
C20_Witness ==
    \E c \in ClientIds :
        /\ conn[c] = "closed_err"
        /\ pc[c] = "idle"
        /\ handler_client_id[c] = c
        /\ c \notin DOMAIN clients
        /\ \E i \in DOMAIN slots : slots[i] = Hole
        /\ DOMAIN clients # {}


\* C21: every submission is consumed by one aggregation: no update is
\* written under two rounds of the History Store, and while no broadcast is
\* in progress the buffer holds no update that a stored round has counted.
C21_ConsumedOnce ==
    /\ \A i, j \in Rows :
          i # j => Sids(fl_rounds[i].weights) \cap Sids(fl_rounds[j].weights) = {}
    /\ Broadcasting = {}
       => \A i \in Rows : Sids(fl_rounds[i].weights) \cap Sids(aggregation_weights) = {}


\* C22: the periodic task runs for the whole lifetime of the server, also
\* after an aggregation of its own that failed: it is never left by an
\* exception.
C22_PeriodicTaskKeepsRunning == pc[PERIODIC] # "stopped"


Overdue(c) == c \in DOMAIN clients /\ now - clients[c].last_seen > inactive_minutes

C24_RoundDescribedConsistently ==
    /\ [][Len(fl_rounds') > Len(fl_rounds)
            => LET row == fl_rounds'[Len(fl_rounds')]
               IN /\ row.participating_clients = Len0(row.weights)
                  /\ \A c \in LiveClients : \A m \in MetricsOf(c) :
                        ModelUpdate(c, m, KnownRound(c), TRUE)
                        => row.weights =
                              Put(aggregation_weights, c, Update(c, m, KnownRound(c)))
                  /\ PeriodicAggregation(TRUE)
                     => row.weights = aggregation_weights]_vars
    /\ [](\A t \in Broadcasting :
             \E i \in Rows :
                /\ fl_rounds[i].round = bcast[t].round
                /\ fl_rounds[i].participating_clients = bcast[t].participating_clients
                /\ DOMAIN fl_rounds[i].weights = bcast[t].contributors
                /\ fl_rounds[i].weights = bcast[t].weights)

\* A round is being broadcast whose contributors are no longer those of
\* the buffer.
C24_Witness ==
    \E t \in Broadcasting :
        /\ bcast[t].contributors # DOMAIN aggregation_weights
        /\ bcast[t].contributors # DOMAIN clients
        /\ \E c \in bcast[t].contributors : pc[c] = "stopped"


\* C25: every client receives the aggregation_complete messages in strictly
\* increasing order of their rounds, and so each round at most once.
C25_RoundsReceivedInOrder ==
    \A c \in ClientIds :
        \A i, j \in DOMAIN received[c] : i < j => received[c][i] < received[c][j]


\* C26: the round numbers of the History Store are unique and every
\* aggregation writes its round row, also the aggregations of a server
\* started on a database that holds the rounds of an earlier run.
C26_EveryAggregationStored ==
    /\ [](\A i, j \in Rows : i # j => fl_rounds[i].round # fl_rounds[j].round)
    /\ [][round_number' = round_number + 1
            => /\ Len(fl_rounds') = Len(fl_rounds) + 1
               /\ fl_rounds'[Len(fl_rounds')].round = round_number']_vars


\* C27: one simulation run is active at a time: a start_simulation that is
\* refused changes nothing, and every result of training_history, which a
\* start empties, is a round of the run started last.
C27_OneRunActive ==
    /\ [](\A i \in DOMAIN training_history :
             training_history[i].run = Len(sim_threads))
    /\ [][(sim_reply # "error" /\ sim_reply' = "error")
            => UNCHANGED <<is_running, sim_round_number, training_history,
                           sim_threads>>]_vars


\* ------------------------------------------------------------------------
\* FederatedLearningService
\* ------------------------------------------------------------------------
\* The service is driven by one caller at a time (the commands of fl_cli.py),
\* so each of its methods is one step.  A process is "running" or "exited".

\* What a method returns, as far as its "success" goes.
Reply(call, success) == [call |-> call, success |-> success]

\* start_fl_server: refused while the server runs.  Otherwise Popen may raise
\* (nothing is assigned), or the process is tracked and, two seconds later,
\* either still runs (server_running becomes True) or has exited.
start_fl_server ==
    /\ \/ /\ server_running
          /\ svc_reply' = Reply("start_fl_server", FALSE)
          /\ UNCHANGED <<server_running, fl_server_process>>
       \/ /\ ~server_running
          /\ \E outcome \in {"alive", "exited", "raised"} :
                /\ fl_server_process' = CASE outcome = "alive" -> "running"
                                          [] outcome = "exited" -> "exited"
                                          [] OTHER -> fl_server_process
                /\ server_running' = (outcome = "alive")
                /\ svc_reply' = Reply("start_fl_server", outcome = "alive")
    /\ UNCHANGED <<client_processes, svc_fl_rounds, current_round>>
    /\ UNCHANGED <<server, simulator, fl_client>>

\* The body of stop_fl_server: what it leaves in server_running and
\* fl_server_process, and the success it returns.  `waited` tells whether
\* terminate() and wait(timeout=5) returned; when one of them raises, the
\* except clause returns a failure and both fields stay as they were.
stop_fl_server(running, process, waited) ==
    IF ~running \/ process = None
    THEN [server_running |-> running, fl_server_process |-> process, success |-> FALSE]
    ELSE IF waited
    THEN [server_running |-> FALSE, fl_server_process |-> None, success |-> TRUE]
    ELSE [server_running |-> running, fl_server_process |-> process, success |-> FALSE]

\* A call of stop_fl_server.
stop_fl_server_call ==
    /\ \E waited \in BOOLEAN :
          LET out == stop_fl_server(server_running, fl_server_process, waited)
          IN  /\ server_running' = out.server_running
              /\ fl_server_process' = out.fl_server_process
              /\ svc_reply' = Reply("stop_fl_server", out.success)
    /\ UNCHANGED <<client_processes, svc_fl_rounds, current_round>>
    /\ UNCHANGED <<server, simulator, fl_client>>

\* start_fl_client: refused unless the server runs; otherwise Popen may raise,
\* or the new process is appended to client_processes.
start_fl_client ==
    /\ \/ /\ ~server_running
          /\ svc_reply' = Reply("start_fl_client", FALSE)
          /\ UNCHANGED client_processes
       \/ /\ server_running
          /\ Len(client_processes) < MaxClientProcesses
          /\ \E started \in BOOLEAN :
                /\ client_processes' = IF started
                                       THEN Append(client_processes, "running")
                                       ELSE client_processes
                /\ svc_reply' = Reply("start_fl_client", started)
    /\ UNCHANGED <<server_running, fl_server_process, svc_fl_rounds, current_round>>
    /\ UNCHANGED <<server, simulator, fl_client>>

\* stop_all_clients: every process is terminated inside a try of its own, and
\* the list is cleared whatever happened to the processes.
stop_all_clients ==
    /\ client_processes' = <<>>
    /\ svc_reply' = Reply("stop_all_clients", TRUE)
    /\ UNCHANGED <<server_running, fl_server_process, svc_fl_rounds, current_round>>
    /\ UNCHANGED <<server, simulator, fl_client>>

\* round_data["round_number"] of the round simulated when current_round is cur.
next_round_same(cur) == cur
next_round(cur) == cur + 1

\* simulate_fl_round: refused unless the server runs; otherwise the round is
\* appended and current_round incremented.
simulate_fl_round ==
    /\ \/ /\ ~server_running
          /\ svc_reply' = Reply("simulate_fl_round", FALSE)
          /\ UNCHANGED <<svc_fl_rounds, current_round>>
       \/ /\ server_running
          /\ current_round < MaxServiceRounds
          /\ svc_fl_rounds' = Append(svc_fl_rounds, next_round(current_round))
          /\ current_round' = current_round + 1
          /\ svc_reply' = Reply("simulate_fl_round", TRUE)
    /\ UNCHANGED <<server_running, fl_server_process, client_processes>>
    /\ UNCHANGED <<server, simulator, fl_client>>

\* reset_fl_system: stop_all_clients(), then stop_fl_server() if the server
\* runs (what it returns is not looked at), then the rounds are cleared.
reset_fl_system ==
    /\ client_processes' = <<>>
    /\ \E waited \in BOOLEAN :
          LET out == IF server_running
                     THEN stop_fl_server(server_running, fl_server_process, waited)
                     ELSE [server_running |-> server_running,
                           fl_server_process |-> fl_server_process,
                           success |-> TRUE]
          IN  /\ server_running' = out.server_running
              /\ fl_server_process' = out.fl_server_process
    /\ svc_fl_rounds' = <<>>
    /\ current_round' = 0
    /\ svc_reply' = Reply("reset_fl_system", TRUE)
    /\ UNCHANGED <<server, simulator, fl_client>>

NextService ==
    \/ start_fl_server
    \/ stop_fl_server_call
    \/ start_fl_client
    \/ stop_all_clients
    \/ simulate_fl_round
    \/ reset_fl_system

SpecService == Init /\ [][NextService]_vars

\* C28: in every state of the service current_round is the number of stored
\* rounds and the i-th stored round carries round_number i; and a call of
\* simulate_fl_round made while the server is not running returns a failure
\* and leaves current_round and the stored rounds as they were.
C28_RoundsNumberedInOrder ==
    /\ [](/\ current_round = Len(svc_fl_rounds)
          /\ \A i \in DOMAIN svc_fl_rounds : svc_fl_rounds[i] = i)
    /\ [][(~server_running /\ svc_reply'.call = "simulate_fl_round"
                           /\ svc_reply' # svc_reply)
            => /\ ~svc_reply'.success
               /\ UNCHANGED <<current_round, svc_fl_rounds>>]_vars

\* Two rounds are stored, the server is stopped, and a further
\* simulate_fl_round has been refused.
C28_Witness ==
    /\ svc_reply = Reply("simulate_fl_round", FALSE)
    /\ ~server_running
    /\ svc_fl_rounds = <<1, 2>>


\* C29: whenever the last call was a reset_fl_system that returned success,
\* the service is in its initial state: the server is not running, no server
\* process and no client process is tracked, no round is stored and
\* current_round is 0.
C29_ResetRestoresInitialState ==
    svc_reply = Reply("reset_fl_system", TRUE)
        => /\ ~server_running
           /\ fl_server_process = None
           /\ client_processes = <<>>
           /\ svc_fl_rounds = <<>>
           /\ current_round = 0


\* ------------------------------------------------------------------------
\* EnhancedFederatedLearningClient
\* ------------------------------------------------------------------------
\* One client; its messages are handled one at a time by listen_for_updates.

\* x - y of two floats, x of either sign and y > 0.
FloatMinus(x, y) ==
    IF x.neg THEN Num(TRUE, FAdd(x.abs, y))
    ELSE IF FLess(x.abs, y) THEN Num(TRUE, FSubPos(y, x.abs))
    ELSE Num(FALSE, FSubPos(x.abs, y))

\* load_local_data: the synthetic samples of the client.
load_local_data ==
    /\ local_data' = "samples"
    /\ UNCHANGED <<local_model, privacy_budget, trainings, noised, update_sent>>
    /\ UNCHANGED <<server, simulator, service>>

\* receive_global_model: the decoded model becomes the local model; a payload
\* that does not decode is logged and changes nothing.
receive_global_model ==
    /\ \E decoded \in BOOLEAN :
          local_model' = IF decoded THEN "model" ELSE local_model
    /\ UNCHANGED <<local_data, privacy_budget, trainings, noised, update_sent>>
    /\ UNCHANGED <<server, simulator, service>>

\* self.privacy_budget after add_privacy_noise has returned.
add_privacy_noise(budget) == FloatMinus(budget, Tenth)

\* perform_local_training for a training_request.  Without data or a model
\* it returns at once.  Otherwise train_local_model fits the model and
\* appends to training_history; with use_privacy, add_privacy_noise either
\* returns, having lowered the budget, or raises while it writes
\* feature_importances_ (an attribute a model may not let be assigned), and
\* then the except clause ends the request; last the update is sent, which
\* fails on a closed connection.
perform_local_training(use_privacy) ==
    /\ \/ /\ local_data = None \/ local_model = None
          /\ update_sent' = FALSE
          /\ UNCHANGED <<privacy_budget, trainings, noised>>
       \/ /\ local_data # None /\ local_model # None
          /\ trainings < MaxTrainings
          /\ trainings' = trainings + 1
          /\ \E returned \in BOOLEAN, delivered \in BOOLEAN :
                /\ privacy_budget' = IF use_privacy /\ returned
                                     THEN add_privacy_noise(privacy_budget)
                                     ELSE privacy_budget
                /\ noised' = IF use_privacy /\ returned THEN noised + 1 ELSE noised
                /\ update_sent' = ((use_privacy => returned) /\ delivered)
    /\ UNCHANGED <<local_data, local_model>>
    /\ UNCHANGED <<server, simulator, service>>

NextClient ==
    \/ load_local_data
    \/ receive_global_model
    \/ \E use_privacy \in BOOLEAN : perform_local_training(use_privacy)

SpecClient == Init /\ [][NextClient]_vars

\* C30: the privacy budget of a client is 1.0 as long as no training has
\* added privacy noise, every training that adds privacy noise lowers it by
\* 0.1, and it is never below 0, however many training requests are served.
C30_PrivacyBudgetNeverNegative ==
    /\ [](noised = 0 => privacy_budget = Num(FALSE, One))
    /\ [](~privacy_budget.neg \/ privacy_budget.abs = FZero)
    /\ [][noised' = noised + 1
            => privacy_budget' = FloatMinus(privacy_budget, Tenth)]_vars
====
